---- MODULE Spec2Model ----
(***************************************************************************)
(* Scan pipeline of XRay: the plugin registry (core/registry.py), the      *)
(* orchestrator's file loop (services/orchestrator.py, run_scan) and the   *)
(* file-centric aggregation of run_scan_v2.                                *)
(*                                                                         *)
(* Strings that the code lower-cases, slices or compares (paths and        *)
(* extensions) are sequences of code points, so that str.lower(),          *)
(* Path.suffix and the sort key are computed, not assumed.                 *)
(*                                                                         *)
(* Plugins are the environment. core/interfaces.py lets two of their       *)
(* methods fail: build_artifact ("raise a clear exception if the file      *)
(* cannot be read") and run (raising is the unexpected defect); in Spec    *)
(* each call of these two returns or raises, and supports(), applies_to()  *)
(* and name() return. SpecFaulty adds plugins whose supports(),            *)
(* applies_to() or name() raise. A file path is its name: all files lie    *)
(* in the scanned root, on a case-sensitive file system. size_bytes, the   *)
(* messages, the timestamps and the run id play no part in routing,        *)
(* counting or ordering and are left out of the records.                   *)
(***************************************************************************)
EXTENDS Integers, Sequences, FiniteSets, TLC

\* ---------------------------------------------------------------- bounds
MaxFiles == 2      \* entries os.walk lists under the root
MaxChecks == 2     \* registered checks

\* ------------------------------------------------------- string helpers
Lower(s) == [n \in 1..Len(s) |-> IF s[n] \in 65..90 THEN s[n] + 32 ELSE s[n]]

\* str.rfind("."): the last position of a dot, 0 when there is none
RFindDot(s) ==
    LET ds == {n \in 1..Len(s) : s[n] = 46}
    IN  IF ds = {} THEN 0 ELSE CHOOSE n \in ds : \A m \in ds : m <= n

\* pathlib's PurePath.suffix: empty unless the last dot is neither the
\* first nor the last character of the name
Suffix(s) ==
    LET d == RFindDot(s)
    IN  IF 1 < d /\ d < Len(s) THEN SubSeq(s, d, Len(s)) ELSE <<>>

\* utils/path_utils.py _suffix_lower: everything from the last dot on
SuffixLower(s) ==
    LET d == RFindDot(s)
    IN  IF d = 0 THEN <<>> ELSE Lower(SubSeq(s, d, Len(s)))

\* Python's < on str: lexicographic on code points
RECURSIVE StrLess(_, _)
StrLess(s, t) ==
    IF t = <<>> THEN FALSE
    ELSE IF s = <<>> THEN TRUE
    ELSE IF Head(s) # Head(t) THEN Head(s) < Head(t)
    ELSE StrLess(Tail(s), Tail(t))

\* ------------------------------------------------ the files of the root
a_pdf  == <<97, 46, 112, 100, 102>>          \* "a.pdf"
A_PDF  == <<65, 46, 80, 68, 70>>             \* "A.PDF"
B_docx == <<66, 46, 100, 111, 99, 120>>      \* "B.docx"
c_txt  == <<99, 46, 116, 120, 116>>          \* "c.txt"
d_xlsx == <<100, 46, 120, 108, 115, 120>>    \* "d.xlsx"
DiskNames == {a_pdf, A_PDF, B_docx, c_txt}

ext_pdf  == <<46, 112, 100, 102>>            \* ".pdf"
ext_PDF  == <<46, 80, 68, 70>>               \* ".PDF"
ext_docx == <<46, 100, 111, 99, 120>>        \* ".docx"
ext_DOCX == <<46, 68, 79, 67, 88>>           \* ".DOCX"
ext_pptx == <<46, 112, 112, 116, 120>>       \* ".pptx"
ext_star == <<42>>                           \* "*"
ext_xlsx == <<46, 120, 108, 115, 120>>       \* ".xlsx"

_DEFAULT_EXTS == {ext_docx, ext_pptx, ext_pdf}

\* iter_target_files(root) over the order in which os.walk lists the names
iter_target_files(listing) ==
    SelectSeq(listing, LAMBDA f : SuffixLower(f) \in _DEFAULT_EXTS)

\* --------------------------------------------------------- the plugins
\* Concrete FileProcessor classes: what supports() returns and the class of
\* the exception build_artifact raises when it cannot read the file.
ProcTypes == {"PdfProcessor", "OfficeProcessor"}

supports(p) ==
    IF p = "PdfProcessor" THEN <<ext_pdf>>
    ELSE IF p = "XlsxProcessor" THEN <<ext_xlsx>>
    ELSE <<ext_PDF, ext_docx>>

BuildException(p) ==
    IF p = "PdfProcessor" THEN "PdfReadError" ELSE "BadZipFile"

\* Concrete Check classes: name(), applies_to(), the severity of the
\* CheckResult run() returns and the class of the exception it raises.
CheckTypes == {"ErrCheck", "WarnCheck", "InfoCheck"}

name(c) ==
    CASE c = "ErrCheck"  -> "err rule"
      [] c = "WarnCheck" -> "warn rule"
      [] c = "InfoCheck" -> "info rule"
      [] c = "XlsxHiddenSheetsCheck"       -> "xlsx_hidden_sheets"
      [] c = "XlsxWorkbookProtectionCheck" -> "xlsx_workbook_protection"
      [] c = "XlsxYellowCellsCheck"        -> "xlsx_yellow_cells"
      [] c = "XlsxYellowSheetTabsCheck"    -> "xlsx_yellow_sheet_tabs"

applies_to(c) ==
    CASE c = "ErrCheck"  -> <<ext_pdf>>
      [] c = "WarnCheck" -> <<ext_star>>
      [] c = "InfoCheck" -> <<ext_DOCX>>

SeverityOf(c) ==
    CASE c = "ErrCheck"  -> "ERROR"
      [] c = "WarnCheck" -> "WARNING"
      [] c = "InfoCheck" -> "INFO"

RunException(c) ==
    CASE c = "ErrCheck"  -> "ValueError"
      [] c = "WarnCheck" -> "KeyError"
      [] c = "InfoCheck" -> "RuntimeError"

Severity == {"INFO", "WARNING", "ERROR"}

\* core/models.py CheckResult; extra holds the keys the orchestrator sets
CheckResult(file, check_name, severity, passed, extra) ==
    [file |-> file, check_name |-> check_name, severity |-> severity,
     passed |-> passed, extra |-> extra]

NoExtra == [exception |-> "", extension |-> <<>>]

\* what Check.run returns when it returns
RunResult(c, art, passed) ==
    CheckResult(art.path, name(c), SeverityOf(c), passed, NoExtra)

\* --------------------------------------------------------------- state
VARIABLES
    _PROCESSORS,   \* core.registry._PROCESSORS
    _CHECKS,       \* core.registry._CHECKS
    pc,           \* where run_scan_v2 stands: idle, loop, checks, done, crashed
    file_list,    \* run_scan: list(iter_target_files(root))
    proc_index,   \* run_scan: extension -> processor
    i,            \* run_scan: 1-based position in file_list
    artifact,     \* run_scan: the artifact of the current file
    chks,         \* run_scan: the list checks() returned for the current file
    k,            \* run_scan: position in chks
    results,      \* report.results of the AggregateReport
    calls,        \* history: the plugin and callback calls made, in order
    scan,         \* the ScanReport run_scan_v2 returned
    on_progress,  \* Orchestrator._on_progress: a callback was supplied
    workbook,         \* the .xlsx package handed to the locators
    streaming_cells,  \* what services.xlsx_locators.list_yellow_cells returned
    openpyxl_cells,   \* what services.xlsx_locators_openpyxl.list_yellow_cells returned
    args,             \* the arguments at hand for the colour functions
    returned          \* what the colour functions returned for them, in order

vars == <<_PROCESSORS, _CHECKS, pc, file_list, proc_index, i, artifact, chks,
          k, results, calls, scan, on_progress, workbook, streaming_cells,
          openpyxl_cells, args, returned>>

None == [none |-> TRUE]

\* the registry after import and a pipeline that has not run
InitScan ==
    /\ _PROCESSORS = <<>>
    /\ _CHECKS = <<>>
    /\ pc = "idle"
    /\ file_list = <<>>
    /\ proc_index = <<>>
    /\ i = 0
    /\ artifact = None
    /\ chks = <<>>
    /\ k = 0
    /\ results = <<>>
    /\ calls = <<>>
    /\ scan = None

\* no workbook has been handed to a locator
NoWorkbook ==
    /\ workbook = None
    /\ streaming_cells = <<>>
    /\ openpyxl_cells = <<>>

\* no colour function has been applied
NoApplication ==
    /\ args = None
    /\ returned = <<>>

\* Orchestrator(): on_progress defaults to None
Init ==
    /\ InitScan
    /\ on_progress = FALSE
    /\ NoWorkbook
    /\ NoApplication

runVars == <<file_list, proc_index, i, artifact, chks, k, results, calls, scan>>

\* what no step of the registry or of a scan changes
otherVars == <<on_progress, workbook, streaming_cells, openpyxl_cells, args,
               returned>>

\* ------------------------------------------------------------ registry
\* Plugin classes that extend another plugin class rather than the
\* interface: PdfOcrProcessor(PdfProcessor) and StrictErrCheck(ErrCheck).
\* Base(c) is the class c extends, c itself for a direct implementation.
Base(c) ==
    CASE c = "PdfOcrProcessor" -> "PdfProcessor"
      [] c = "StrictErrCheck"  -> "ErrCheck"
      [] OTHER                 -> c

ProcClasses == ProcTypes \cup {"PdfOcrProcessor"}

CheckClasses == CheckTypes \cup {"StrictErrCheck"}

IsInstanceNever(existing, t) == FALSE

\* isinstance(existing, type(p)): existing's class is t or extends t
IsInstance(existing, t) == existing = t \/ Base(existing) = t

AnyInstance(store, t) == \E n \in 1..Len(store) : IsInstance(store[n], t)

register_processor(p) ==
    /\ pc = "idle"
    /\ _PROCESSORS' = IF AnyInstance(_PROCESSORS, p) THEN _PROCESSORS
                     ELSE Append(_PROCESSORS, p)
    /\ UNCHANGED <<otherVars, _CHECKS, pc, runVars>>

register_check(c) ==
    /\ pc = "idle"
    /\ Len(_CHECKS) < MaxChecks \/ AnyInstance(_CHECKS, c)
    /\ _CHECKS' = IF AnyInstance(_CHECKS, c) THEN _CHECKS ELSE Append(_CHECKS, c)
    /\ UNCHANGED <<otherVars, _PROCESSORS, pc, runVars>>

clear_registry ==
    /\ pc = "idle"
    /\ _PROCESSORS' = <<>>
    /\ _CHECKS' = <<>>
    /\ UNCHANGED <<otherVars, pc, runVars>>

\* -------------------------------------------------------- orchestrator
Put(f, key, v) == [x \in DOMAIN f \cup {key} |-> IF x = key THEN v ELSE f[x]]

\* the (extension, processor) pairs in the order the two nested loops of
\* _index_processors visit them
RECURSIVE SupportPairs(_)
SupportPairs(procs) ==
    IF procs = <<>> THEN <<>>
    ELSE [n \in 1..Len(supports(Head(procs))) |->
              <<supports(Head(procs))[n], Head(procs)>>]
         \o SupportPairs(Tail(procs))

RECURSIVE IndexFrom(_, _)
IndexFrom(pairs, index) ==
    IF pairs = <<>> THEN index
    ELSE IndexFrom(Tail(pairs),
                   Put(index, Lower(Head(pairs)[1]), Head(pairs)[2]))

Reverse(sq) == [n \in 1..Len(sq) |-> sq[Len(sq) + 1 - n]]

_index_first_wins(procs) == IndexFrom(Reverse(SupportPairs(procs)), <<>>)

_index_processors(procs) == IndexFrom(SupportPairs(procs), <<>>)

_check_applies_exact(targets, e) ==
    \E n \in 1..Len(targets) : targets[n] = ext_star \/ targets[n] = e

_check_applies(targets, e) ==
    LET lowered == [n \in 1..Len(targets) |-> Lower(targets[n])]
    IN  \E n \in 1..Len(lowered) : lowered[n] = ext_star \/ lowered[n] = e

FileArtifact(path, extension) == [path |-> path, extension |-> extension]

NoProcessorAsError(f, e) ==
    CheckResult(f, "No processor found", "ERROR", FALSE,
                [exception |-> "", extension |-> e])

\* the CheckResult of run_scan for a file without processor
NoProcessorResult(f, e) ==
    CheckResult(f, "No processor found", "WARNING", FALSE,
                [exception |-> "", extension |-> e])

BuildFailedBaseClass(f, exc) ==
    CheckResult(f, "Artifact build failed", "ERROR", FALSE,
                [exception |-> "Exception", extension |-> <<>>])

\* the CheckResult of _safe_build_artifact when build_artifact raises exc
BuildFailedResult(f, exc) ==
    CheckResult(f, "Artifact build failed", "ERROR", FALSE,
                [exception |-> exc, extension |-> <<>>])

CheckCrashFixedName(c, art, exc) ==
    CheckResult(art.path, "Check raised exception", "ERROR", FALSE,
                [exception |-> exc, extension |-> <<>>])

\* the CheckResult of _safe_run_check when chk.run raises exc
CheckCrashResult(c, art, exc) ==
    CheckResult(art.path, name(c), "ERROR", FALSE,
                [exception |-> exc, extension |-> <<>>])

NextFileRetries(n, raised) == IF raised THEN n ELSE n + 1

NextCheckBreaks(n, raised) == IF raised THEN Len(chks) + 1 ELSE n + 1

\* the for loops of run_scan: where the file loop and the check loop go
\* after an iteration (raised: the iteration's plugin call raised)
NextFile(n, raised) == n + 1

NextCheck(n, raised) == n + 1

\* an entry of the call history: the plugin method, the plugin, the file,
\* whether the call raised and, for a run that returned, what it returned
Call(op, who, file, raised, ret) ==
    [op |-> op, who |-> who, file |-> file, raised |-> raised, ret |-> ret]

\* the orders in which os.walk can list at most MaxFiles names of the root
Listings ==
    {s \in UNION {[1..n -> DiskNames] : n \in 0..MaxFiles} :
        \A x, y \in 1..Len(s) : x # y => s[x] # s[y]}

fpath == file_list[i]

ext == Lower(Suffix(fpath))

processor == IF ext \in DOMAIN proc_index THEN proc_index[ext] ELSE "None"

InLoop == pc = "loop" /\ i <= Len(file_list)

\* an entry of the call history for self._on_progress(i, total, fpath)
ProgressCall(n, total, f) ==
    [op |-> "on_progress", who |-> "callback", file |-> f, raised |-> FALSE,
     ret |-> None, i |-> n, total |-> total]

NotifyRoutedOnly(log) ==
    IF on_progress /\ processor # "None"
    THEN Append(log, ProgressCall(i, Len(file_list), fpath))
    ELSE log

\* the head of an iteration of the file loop: the callback, when there is
\* one, is called before the file is routed
Notify(log) ==
    IF on_progress
    THEN Append(log, ProgressCall(i, Len(file_list), fpath))
    ELSE log

\* run_scan_v2 is called: discovery and the processor index
StartScan(listing) ==
    /\ pc = "idle"
    /\ file_list' = iter_target_files(listing)
    /\ proc_index' = _index_processors(_PROCESSORS)
    /\ results' = <<>>
    /\ i' = 1
    /\ pc' = "loop"
    /\ UNCHANGED <<otherVars, _PROCESSORS, _CHECKS, artifact, chks, k, calls,
                   scan>>

\* one iteration of the file loop, no processor for the extension
NoProcessor ==
    /\ InLoop
    /\ processor = "None"
    /\ calls' = Notify(calls)
    /\ results' = Append(results, NoProcessorResult(fpath, ext))
    /\ i' = NextFile(i, FALSE)
    /\ UNCHANGED <<otherVars, _PROCESSORS, _CHECKS, pc, file_list, proc_index,
                   artifact, chks, k, scan>>

\* one iteration of the file loop, build_artifact raises
BuildRaises ==
    /\ InLoop
    /\ processor # "None"
    /\ calls' = Append(Notify(calls),
                       Call("build_artifact", processor, fpath, TRUE, None))
    /\ results' = Append(results,
                         BuildFailedResult(fpath, BuildException(processor)))
    /\ i' = NextFile(i, TRUE)
    /\ UNCHANGED <<otherVars, _PROCESSORS, _CHECKS, pc, file_list, proc_index,
                   artifact, chks, k, scan>>

\* one iteration of the file loop up to the check loop: build_artifact
\* returns and checks() is read
BuildReturns ==
    /\ InLoop
    /\ processor # "None"
    /\ calls' = Append(Notify(calls),
                       Call("build_artifact", processor, fpath, FALSE, None))
    /\ artifact' = FileArtifact(fpath, ext)
    /\ chks' = _CHECKS
    /\ k' = 1
    /\ pc' = "checks"
    /\ UNCHANGED <<otherVars, _PROCESSORS, _CHECKS, file_list, proc_index, i,
                   results, scan>>

InChecks == pc = "checks" /\ k <= Len(chks)

chk_reversed == chks[Len(chks) + 1 - k]

chk == chks[k]

\* the check does not apply to the extension
CheckSkipped ==
    /\ InChecks
    /\ ~_check_applies(applies_to(chk), ext)
    /\ k' = NextCheck(k, FALSE)
    /\ UNCHANGED <<otherVars, _PROCESSORS, _CHECKS, pc, file_list, proc_index, i,
                   artifact, chks, results, calls, scan>>

\* _safe_run_check, chk.run returns a CheckResult
CheckReturns(passed) ==
    /\ InChecks
    /\ _check_applies(applies_to(chk), ext)
    /\ calls' = Append(calls, Call("run", chk, artifact.path, FALSE,
                                   RunResult(chk, artifact, passed)))
    /\ results' = Append(results, RunResult(chk, artifact, passed))
    /\ k' = NextCheck(k, FALSE)
    /\ UNCHANGED <<otherVars, _PROCESSORS, _CHECKS, pc, file_list, proc_index, i,
                   artifact, chks, scan>>

\* _safe_run_check, chk.run raises
CheckRaises ==
    /\ InChecks
    /\ _check_applies(applies_to(chk), ext)
    /\ calls' = Append(calls, Call("run", chk, artifact.path, TRUE, None))
    /\ results' = Append(results,
                         CheckCrashResult(chk, artifact, RunException(chk)))
    /\ k' = NextCheck(k, TRUE)
    /\ UNCHANGED <<otherVars, _PROCESSORS, _CHECKS, pc, file_list, proc_index, i,
                   artifact, chks, scan>>

\* the check loop is exhausted: next iteration of the file loop
EndChecks ==
    /\ pc = "checks"
    /\ k > Len(chks)
    /\ i' = NextFile(i, FALSE)
    /\ pc' = "loop"
    /\ artifact' = None
    /\ UNCHANGED <<otherVars, _PROCESSORS, _CHECKS, file_list, proc_index, chks,
                   k, results, calls, scan>>

\* ---------------------------------------------- run_scan_v2 aggregation
\* by_file: a dict keeps its keys in the order of their first insertion
RECURSIVE GroupFrom(_, _, _)
GroupFrom(rs, keys, groups) ==
    IF rs = <<>> THEN [keys |-> keys, groups |-> groups]
    ELSE LET r == Head(rs)
         IN  IF r.file \in DOMAIN groups
             THEN GroupFrom(Tail(rs), keys,
                            [groups EXCEPT ![r.file] = Append(@, r)])
             ELSE GroupFrom(Tail(rs), Append(keys, r.file),
                            Put(groups, r.file, <<r>>))

RECURSIVE GroupOverwriting(_, _, _)
GroupOverwriting(rs, keys, groups) ==
    IF rs = <<>> THEN [keys |-> keys, groups |-> groups]
    ELSE LET r == Head(rs)
         IN  IF r.file \in DOMAIN groups
             THEN GroupOverwriting(Tail(rs), keys,
                                   [groups EXCEPT ![r.file] = <<r>>])
             ELSE GroupOverwriting(Tail(rs), Append(keys, r.file),
                                   Put(groups, r.file, <<r>>))

by_file_overwriting(flat) == GroupOverwriting(flat, <<>>, <<>>)

by_file(flat) == GroupFrom(flat, <<>>, <<>>)

CountErrsAnyOutcome(rs) ==
    Cardinality({n \in 1..Len(rs) : rs[n].severity = "ERROR"})

CountErrs(rs) ==
    Cardinality({n \in 1..Len(rs) : rs[n].severity = "ERROR" /\ ~rs[n].passed})

CountWarns(rs) ==
    Cardinality({n \in 1..Len(rs) : rs[n].severity = "WARNING" /\ ~rs[n].passed})

CountInfos(rs) ==
    Cardinality({n \in 1..Len(rs) : rs[n].severity = "INFO"})

VerdictWarnFirst(errs, warns) ==
    IF warns > 0 THEN "WARN" ELSE IF errs > 0 THEN "FAIL" ELSE "PASS"

Verdict(errs, warns) ==
    IF errs > 0 THEN "FAIL" ELSE IF warns > 0 THEN "WARN" ELSE "PASS"

FileReport(file_path, rs) ==
    [file |-> file_path,
     extension |-> Lower(Suffix(file_path)),
     verdict |-> Verdict(CountErrs(rs), CountWarns(rs)),
     errors |-> CountErrs(rs),
     warnings |-> CountWarns(rs),
     infos |-> CountInfos(rs),
     results |-> rs]

files_out(flat) ==
    LET g == by_file(flat)
    IN  [n \in 1..Len(g.keys) |-> FileReport(g.keys[n], g.groups[g.keys[n]])]

\* total_errors, total_warnings and total_infos as the loop accumulates them
RECURSIVE Totals(_, _)
Totals(frs, acc) ==
    IF frs = <<>> THEN acc
    ELSE Totals(Tail(frs),
                [errors |-> acc.errors + Head(frs).errors,
                 warnings |-> acc.warnings + Head(frs).warnings,
                 infos |-> acc.infos + Head(frs).infos])

RunHeaderCountingFiles(flat, frs) ==
    LET t == Totals(frs, [errors |-> 0, warnings |-> 0, infos |-> 0])
    IN  [total_files |-> Len(frs),
         total_checks |-> Len(frs),
         total_errors |-> t.errors,
         total_warnings |-> t.warnings,
         total_infos |-> t.infos]

RunHeader(flat, frs) ==
    LET t == Totals(frs, [errors |-> 0, warnings |-> 0, infos |-> 0])
    IN  [total_files |-> Len(frs),
         total_checks |-> Len(flat),
         total_errors |-> t.errors,
         total_warnings |-> t.warnings,
         total_infos |-> t.infos]

SortKeyCaseSensitive(fr) == fr.file

\* the sort key of a FileReport: str(f.file).lower()
SortKey(fr) == Lower(fr.file)

\* sorted(): stable, an element goes after the elements whose key is not
\* greater than its own
InsertSorted(sq, x) ==
    LET before == {n \in 1..Len(sq) : ~StrLess(SortKey(x), SortKey(sq[n]))}
        p == Cardinality(before)
    IN  SubSeq(sq, 1, p) \o <<x>> \o SubSeq(sq, p + 1, Len(sq))

RECURSIVE SortedFrom(_, _)
SortedFrom(frs, acc) ==
    IF frs = <<>> THEN acc
    ELSE SortedFrom(Tail(frs), InsertSorted(acc, Head(frs)))

sorted(frs) == SortedFrom(frs, <<>>)

ScanReport(flat) ==
    [header |-> RunHeader(flat, files_out(flat)),
     files |-> sorted(files_out(flat))]

\* run_scan returns its AggregateReport and run_scan_v2 groups it
ReturnReport ==
    /\ pc = "loop"
    /\ i > Len(file_list)
    /\ scan' = ScanReport(results)
    /\ pc' = "done"
    /\ UNCHANGED <<otherVars, _PROCESSORS, _CHECKS, file_list, proc_index, i,
                   artifact, chks, k, results, calls>>

\* ------------------------------------------------------- specification
Next ==
    \/ \E p \in ProcTypes : register_processor(p)
    \/ \E c \in CheckTypes : register_check(c)
    \/ clear_registry
    \/ \E listing \in Listings : StartScan(listing)
    \/ NoProcessor
    \/ BuildRaises
    \/ BuildReturns
    \/ CheckSkipped
    \/ \E passed \in BOOLEAN : CheckReturns(passed)
    \/ CheckRaises
    \/ EndChecks
    \/ ReturnReport

Spec == Init /\ [][Next]_vars

\* Orchestrator(on_progress=fn): the runs of an orchestrator with a callback
InitProgress ==
    /\ InitScan
    /\ on_progress = TRUE
    /\ NoWorkbook
    /\ NoApplication

SpecProgress == InitProgress /\ [][Next]_vars

\* the registry on its own, offered every plugin class: the module-level
\* register_* calls of the plugin modules and clear_registry
NextRegistry ==
    \/ \E p \in ProcClasses : register_processor(p)
    \/ \E c \in CheckClasses : register_check(c)
    \/ clear_registry

SpecRegistry == Init /\ [][NextRegistry]_vars

\* ------------------------------------- registration while a run goes on
\* A plugin call or the progress callback of the run calls register_check
\* with an instance the registry takes. The call is entered in the history.
ReentrantRegisterCheck(c) ==
    /\ pc \in {"loop", "checks"}
    /\ Len(_CHECKS) < MaxChecks
    /\ ~AnyInstance(_CHECKS, c)
    /\ _CHECKS' = Append(_CHECKS, c)
    /\ calls' = Append(calls, Call("register_check", c, None, FALSE, None))
    /\ UNCHANGED <<otherVars, _PROCESSORS, pc, file_list, proc_index, i,
                   artifact, chks, k, results, scan>>

\* the same for register_processor
ReentrantRegisterProcessor(p) ==
    /\ pc \in {"loop", "checks"}
    /\ ~AnyInstance(_PROCESSORS, p)
    /\ _PROCESSORS' = Append(_PROCESSORS, p)
    /\ calls' = Append(calls, Call("register_processor", p, None, FALSE, None))
    /\ UNCHANGED <<otherVars, _CHECKS, pc, file_list, proc_index, i, artifact,
                   chks, k, results, scan>>

NextReentrant ==
    \/ Next
    \/ \E c \in CheckTypes : ReentrantRegisterCheck(c)
    \/ \E p \in ProcTypes : ReentrantRegisterProcessor(p)

SpecReentrant == Init /\ [][NextReentrant]_vars

\* the steps of the two loops of a scan in progress
LoopStep ==
    \/ NoProcessor
    \/ BuildRaises
    \/ BuildReturns
    \/ CheckSkipped
    \/ \E passed \in BOOLEAN : CheckReturns(passed)
    \/ CheckRaises
    \/ EndChecks

\* the steps of a scan in progress
ScanStep == LoopStep \/ ReturnReport

\* ------------------------------------------- plugins whose accessors raise
\* p.supports() raises inside _index_processors: nothing catches it
SupportsRaises ==
    /\ pc = "idle"
    /\ _PROCESSORS # <<>>
    /\ pc' = "crashed"
    /\ UNCHANGED <<otherVars, _PROCESSORS, _CHECKS, runVars>>

\* chk.applies_to() raises in the check loop: nothing catches it
AppliesToRaises ==
    /\ InChecks
    /\ pc' = "crashed"
    /\ UNCHANGED <<otherVars, _PROCESSORS, _CHECKS, runVars>>

\* chk.run raises and chk.name() raises inside the except block of
\* _safe_run_check: the second exception leaves run_scan
NameRaises ==
    /\ InChecks
    /\ _check_applies(applies_to(chk), ext)
    /\ calls' = Append(calls, Call("run", chk, artifact.path, TRUE, None))
    /\ pc' = "crashed"
    /\ UNCHANGED <<otherVars, _PROCESSORS, _CHECKS, file_list, proc_index, i,
                   artifact, chks, k, results, scan>>

NextFaulty ==
    \/ Next
    \/ SupportsRaises
    \/ AppliesToRaises
    \/ NameRaises

SpecFaulty == Init /\ [][NextFaulty]_vars

\* ================================================= the yellow-cell locators
\* Attribute values and colours are sequences of code points, as the paths
\* are. The tints of the model are multiples of 1/4, which float() and the
\* arithmetic of _adjust represent exactly.
Upper(s) == [n \in 1..Len(s) |-> IF s[n] \in 97..122 THEN s[n] - 32 ELSE s[n]]

str_6      == <<54>>                          \* "6"
str_0      == <<48>>                          \* "0"
str_1      == <<49>>                          \* "1"
str_4      == <<52>>                          \* "4"
hex_FFFF00 == <<70, 70, 70, 70, 48, 48>>      \* "FFFF00"
argb_yellow == <<70, 70, 70, 70, 70, 70, 48, 48>>   \* "FFFFFF00"
argb_red    == <<70, 70, 70, 70, 48, 48, 48, 48>>   \* "FFFF0000"
rgb_yellow_lower == <<102, 102, 102, 102, 48, 48>>  \* "ffff00"

_YELLOW_6_HEX == {hex_FFFF00}

_YELLOW_INDEXED == {str_6}

\* ElementTree: an element is its tag, its attributes and its children
Element(tag, attrib, children) ==
    [tag |-> tag, attrib |-> attrib, children |-> children]

\* an element without attributes
NoAttrib == [key \in {} |-> <<>>]

\* None where the code expects a str. The code puts such a value only to
\* tests that None and the empty str answer alike: a truth test, `or ""`,
\* membership in a set of non-empty strs, a comparison with "solid".
NoneStr == <<>>

\* attrib.get(key) of a str-valued attribute
Get(attrib, key) == IF key \in DOMAIN attrib THEN attrib[key] ELSE NoneStr

\* int(s) returns for a decimal numeral and raises ValueError for the other
\* strs of the model
IsNumeral(s) == s # <<>> /\ \A n \in DOMAIN s : s[n] \in 48..57

RECURSIVE IntOfDigits(_, _)
IntOfDigits(s, acc) ==
    IF s = <<>> THEN acc ELSE IntOfDigits(Tail(s), 10 * acc + (Head(s) - 48))

int(s) == IntOfDigits(s, 0)

\* a tint attribute and the float it denotes, in quarters
Tint(quarters) == [quarters |-> quarters]

float(tint) == tint.quarters

\* ------------------------------------------------ services/xlsx_theme.py
_normalize_rgb(value) ==
    LET s == Upper(IF value = NoneStr THEN <<>> ELSE value)
    IN  IF Len(s) >= 6 THEN SubSeq(s, Len(s) - 5, Len(s)) ELSE s

_THEME_ORDER ==
    <<"lt1", "dk1", "lt2", "dk2", "accent1", "accent2", "accent3", "accent4",
      "accent5", "accent6", "hlink", "folHlink">>

\* _THEME_TAG_TO_INDEX[name], for a name of _THEME_ORDER
_THEME_TAG_TO_INDEX(tag) ==
    (CHOOSE n \in DOMAIN _THEME_ORDER : _THEME_ORDER[n] = tag) - 1

TintDen == 4

\* int(x, 16) of one hexadecimal digit and of two
HexDigit(c) ==
    IF c \in 48..57 THEN c - 48 ELSE IF c \in 65..70 THEN c - 55 ELSE c - 87

HexByte(s) == 16 * HexDigit(s[1]) + HexDigit(s[2])

\* f"{v:02X}"
Format02X(v) ==
    LET HexChar(d) == IF d < 10 THEN 48 + d ELSE 55 + d
    IN  <<HexChar(v \div 16), HexChar(v % 16)>>

RoundDown(num, den) == num \div den

\* int(round(num / den)): Python rounds a tie to the even neighbour
RoundHalfEven(num, den) ==
    LET q == num \div den
        r == num % den
    IN  IF 2 * r < den THEN q
        ELSE IF 2 * r > den THEN q + 1
        ELSE IF q % 2 = 0 THEN q ELSE q + 1

_adjust_sign_flipped(component, tint) ==
    LET value == IF tint < 0
                 THEN component * (TintDen - tint)
                 ELSE component * TintDen - (255 - component) * tint
        rounded == RoundHalfEven(value, TintDen)
        capped == IF rounded < 255 THEN rounded ELSE 255
    IN  IF capped > 0 THEN capped ELSE 0

_adjust(component, tint) ==
    LET value == IF tint < 0
                 THEN component * (TintDen + tint)
                 ELSE component * TintDen + (255 - component) * tint
        rounded == RoundHalfEven(value, TintDen)
        capped == IF rounded < 255 THEN rounded ELSE 255
    IN  IF capped > 0 THEN capped ELSE 0

_apply_tint(rgb, tint) ==
    LET base == _normalize_rgb(rgb)
    IN  IF Len(base) # 6 THEN base
        ELSE Format02X(_adjust(HexByte(SubSeq(base, 1, 2)), tint))
             \o Format02X(_adjust(HexByte(SubSeq(base, 3, 4)), tint))
             \o Format02X(_adjust(HexByte(SubSeq(base, 5, 6)), tint))

Malformed == [malformed |-> TRUE]

\* the theme part of the package: None when the package has none,
\* Malformed when it does not parse, else ClrScheme of the children of
\* <a:clrScheme>, each with the val of its srgbClr (or the lastClr of its
\* sysClr)
ClrScheme(children) == [clrScheme |-> children]

RECURSIVE ThemeMapFrom(_, _)
ThemeMapFrom(scheme, mapping) ==
    IF scheme = <<>> THEN mapping
    ELSE LET child == Head(scheme)
             known == \E n \in DOMAIN _THEME_ORDER : _THEME_ORDER[n] = child.tag
         IN  ThemeMapFrom(
                 Tail(scheme),
                 IF known /\ child.rgb # NoneStr
                 THEN Put(mapping, _THEME_TAG_TO_INDEX(child.tag),
                          _normalize_rgb(child.rgb))
                 ELSE mapping)

theme_rgb_map_with_default(theme_part) ==
    IF theme_part = None \/ theme_part = Malformed
    THEN Put(<<>>, 4, hex_FFFF00)
    ELSE ThemeMapFrom(theme_part.clrScheme, <<>>)

theme_rgb_map_from_zip(theme_part) ==
    IF theme_part = None \/ theme_part = Malformed THEN <<>>
    ELSE ThemeMapFrom(theme_part.clrScheme, <<>>)

resolve_theme_color(theme_map, theme_idx, tint) ==
    IF DOMAIN theme_map = {} THEN NoneStr
    ELSE IF ~IsNumeral(theme_idx) THEN NoneStr
    ELSE IF int(theme_idx) \notin DOMAIN theme_map THEN NoneStr
    ELSE LET rgb == _normalize_rgb(theme_map[int(theme_idx)])
             tint_val == IF tint = None THEN 0 ELSE float(tint)
         IN  IF tint_val = 0 THEN rgb ELSE _apply_tint(rgb, tint_val)

\* --------------------------------------------- services/xlsx_locators.py
_color_attrs_are_classic_yellow(attrs, theme_rgb_map) ==
    \/ _normalize_rgb(Get(attrs, "rgb")) \in _YELLOW_6_HEX
    \/ Get(attrs, "indexed") \in _YELLOW_INDEXED
    \/ /\ "theme" \in DOMAIN attrs
       /\ LET resolved == resolve_theme_color(
                              theme_rgb_map, attrs.theme,
                              IF "tint" \in DOMAIN attrs
                              THEN attrs.tint ELSE None)
          IN  resolved # NoneStr
              /\ _normalize_rgb(resolved) \in _YELLOW_6_HEX

str_solid   == <<115, 111, 108, 105, 100>>               \* "solid"
str_gray125 == <<103, 114, 97, 121, 49, 50, 53>>         \* "gray125"
ref_A1      == <<65, 49>>                                \* "A1"
ref_B1      == <<66, 49>>                                \* "B1"

\* the elements iterparse(fp, events=("end",)) hands to the loop, in
\* order: an element ends after its children, and every iteration of the
\* loops of this module ends with elem.clear(), so that an element reaches
\* the loop with its own attributes and with children that have lost their
\* attributes and their children
Cleared(elem) == Element(elem.tag, NoAttrib, <<>>)

RECURSIVE EndEvents(_)
RECURSIVE EndEventsOfAll(_)
EndEventsOfAll(elems) ==
    IF elems = <<>> THEN <<>>
    ELSE EndEvents(Head(elems)) \o EndEventsOfAll(Tail(elems))

EndEvents(elem) ==
    EndEventsOfAll(elem.children)
    \o << [elem EXCEPT !.children =
                           [n \in DOMAIN elem.children |->
                                Cleared(elem.children[n])]] >>

\* the local variables of _parse_styles_for_yellow before its loop
ParseStart ==
    [in_fills |-> FALSE, in_cellxfs |-> FALSE, fill_id |-> -1, xf_idx |-> -1,
     style_to_fill |-> <<>>, yellow_fill_ids |-> {}]

\* one iteration of the loop of _parse_styles_for_yellow
ParseStep(st, elem, theme_rgb_map) ==
    LET tag == elem.tag
        flagged == [st EXCEPT
                       !.in_fills = @ \/ tag = "fills",
                       !.in_cellxfs = @ \/ tag = "cellXfs"]
        solid_yellow ==
            \E n \in DOMAIN elem.children :
                LET child == elem.children[n]
                IN  /\ child.tag = "patternFill"
                    /\ Get(child.attrib, "patternType") = str_solid
                    /\ \E m \in DOMAIN child.children :
                          /\ child.children[m].tag \in {"fgColor", "bgColor"}
                          /\ _color_attrs_are_classic_yellow(
                                 child.children[m].attrib, theme_rgb_map)
        fid == Get(elem.attrib, "fillId")
    IN  IF flagged.in_fills /\ tag = "fill"
        THEN [flagged EXCEPT
                 !.fill_id = @ + 1,
                 !.yellow_fill_ids =
                     IF solid_yellow THEN @ \cup {st.fill_id + 1} ELSE @]
        ELSE IF flagged.in_cellxfs /\ tag = "xf"
        THEN [flagged EXCEPT
                 !.xf_idx = @ + 1,
                 !.style_to_fill =
                     Put(@, st.xf_idx + 1,
                         IF IsNumeral(fid) THEN int(fid) ELSE 0)]
        ELSE flagged

RECURSIVE ParseFrom(_, _, _)
ParseFrom(events, st, theme_rgb_map) ==
    IF events = <<>> THEN st
    ELSE ParseFrom(Tail(events), ParseStep(st, Head(events), theme_rgb_map),
                   theme_rgb_map)

\* styles_part: the root element of xl/styles.xml, None without that part
_parse_styles_for_yellow(styles_part, theme_rgb_map) ==
    IF styles_part = None THEN ParseStart
    ELSE ParseFrom(EndEvents(styles_part), ParseStart, theme_rgb_map)

\* cells: the <c> elements of the worksheet part, in document order;
\* yellow: the parameter yellow_fill_ids
_yield_sheet_cells_with_yellow(cells, sheet_name, style_to_fill, yellow) ==
    LET Hit(c) ==
            LET ref == Get(c.attrib, "r")
                s == Get(c.attrib, "s")
            IN  /\ "s" \in DOMAIN c.attrib
                /\ ref # NoneStr
                /\ IsNumeral(s)
                /\ (IF int(s) \in DOMAIN style_to_fill
                    THEN style_to_fill[int(s)] ELSE 0) \in yellow
        hits == SelectSeq(cells, Hit)
    IN  IF DOMAIN style_to_fill = {} \/ yellow = {} THEN <<>>
        ELSE [n \in DOMAIN hits |-> <<sheet_name, hits[n].attrib.r>>]

\* the worksheets of the package in the order of their part names, each
\* with the display name xl/workbook.xml gives it
RECURSIVE YellowOfSheets(_, _, _)
YellowOfSheets(sheets, style_to_fill, yellow_fill_ids) ==
    IF sheets = <<>> THEN <<>>
    ELSE _yield_sheet_cells_with_yellow(Head(sheets).cells, Head(sheets).name,
                                        style_to_fill, yellow_fill_ids)
         \o YellowOfSheets(Tail(sheets), style_to_fill, yellow_fill_ids)

\* services.xlsx_locators.list_yellow_cells for a readable package
list_yellow_cells(wb) ==
    LET theme_rgb_map == theme_rgb_map_from_zip(wb.theme)
        parsed == _parse_styles_for_yellow(wb.styles, theme_rgb_map)
    IN  IF DOMAIN parsed.style_to_fill = {} \/ parsed.yellow_fill_ids = {}
        THEN <<>>
        ELSE YellowOfSheets(wb.sheets, parsed.style_to_fill,
                            parsed.yellow_fill_ids)

\* -------------------------------------- services/xlsx_locators_openpyxl.py
\* What openpyxl's load_workbook makes of the package. The children of the
\* section of the style sheet with the given tag:
Section(styles_part, tag) ==
    LET at == {n \in DOMAIN styles_part.children :
                  styles_part.children[n].tag = tag}
    IN  IF at = {} THEN <<>>
        ELSE styles_part.children[CHOOSE n \in at : TRUE].children

argb_black == <<48, 48, 48, 48, 48, 48, 48, 48>>       \* "00000000"

\* openpyxl.styles.colors.Color(**attrib): the constructor sets one of
\* indexed, theme and rgb, in this order of precedence, and the tint.
\* getattr of an attribute it did not set returns the class's descriptor,
\* which is no str, not None and no number: here the type says which of
\* the three is set.
ColorObject(attrib) ==
    [type |-> IF "indexed" \in DOMAIN attrib THEN "indexed"
              ELSE IF "theme" \in DOMAIN attrib THEN "theme" ELSE "rgb",
     rgb |-> IF "rgb" \in DOMAIN attrib THEN attrib.rgb ELSE argb_black,
     indexed |-> Get(attrib, "indexed"),
     theme |-> Get(attrib, "theme"),
     tint |-> IF "tint" \in DOMAIN attrib THEN attrib.tint ELSE Tint(0)]

\* the PatternFill of a <fill> element: patternType and the two colours,
\* Color() where the element has none
FillObject(fill_elem) ==
    LET pf == fill_elem.children[1]
        ColorOf(tag) ==
            LET at == {n \in DOMAIN pf.children : pf.children[n].tag = tag}
            IN  IF at = {} THEN ColorObject(NoAttrib)
                ELSE ColorObject(pf.children[CHOOSE n \in at : TRUE].attrib)
    IN  [patternType |-> Get(pf.attrib, "patternType"),
         fgColor |-> ColorOf("fgColor"),
         bgColor |-> ColorOf("bgColor")]

\* cell.fill: the fill of the cell's format, format 0 for a cell without s;
\* PatternFill() in a workbook without style sheet
CellFill(wb, c) ==
    IF wb.styles = None
    THEN [patternType |-> NoneStr, fgColor |-> ColorObject(NoAttrib),
          bgColor |-> ColorObject(NoAttrib)]
    ELSE LET s == Get(c.attrib, "s")
             xf == Section(wb.styles, "cellXfs")[
                       (IF IsNumeral(s) THEN int(s) ELSE 0) + 1]
             fid == Get(xf.attrib, "fillId")
         IN  FillObject(Section(wb.styles, "fills")[
                            (IF IsNumeral(fid) THEN int(fid) ELSE 0) + 1])

_color_obj_is_classic_yellow(color, theme_rgb_map) ==
    \/ color.type = "rgb" /\ _normalize_rgb(color.rgb) = hex_FFFF00
    \/ color.type = "indexed" /\ color.indexed = str_6
    \/ /\ color.type = "theme"
       /\ LET resolved == resolve_theme_color(theme_rgb_map, color.theme,
                                              IF float(color.tint) = 0
                                              THEN None ELSE color.tint)
          IN  resolved # NoneStr /\ _normalize_rgb(resolved) = hex_FFFF00

_is_classic_yellow_fill(fill, theme_rgb_map) ==
    /\ fill.patternType = str_solid
    /\ \/ _color_obj_is_classic_yellow(fill.fgColor, theme_rgb_map)
       \/ _color_obj_is_classic_yellow(fill.bgColor, theme_rgb_map)

RECURSIVE YellowOfWorksheets(_, _, _)
YellowOfWorksheets(wb, sheets, theme_rgb_map) ==
    IF sheets = <<>> THEN <<>>
    ELSE LET ws == Head(sheets)
             hits == SelectSeq(ws.cells,
                               LAMBDA c : _is_classic_yellow_fill(
                                              CellFill(wb, c), theme_rgb_map))
         IN  [n \in DOMAIN hits |-> <<ws.name, hits[n].attrib.r>>]
             \o YellowOfWorksheets(wb, Tail(sheets), theme_rgb_map)

\* services.xlsx_locators_openpyxl.list_yellow_cells for a readable package
openpyxl_list_yellow_cells(wb) ==
    YellowOfWorksheets(wb, wb.sheets, theme_rgb_map_from_zip(wb.theme))

\* ------------------------------------------------ the packages examined
\* <a:clrScheme> with black as dk1 and yellow as accent1 (theme index 4)
YellowAccentScheme ==
    ClrScheme(<< [tag |-> "dk1", rgb |-> <<48, 48, 48, 48, 48, 48>>],
                 [tag |-> "accent1", rgb |-> hex_FFFF00] >>)

\* The packages are listed, not collected in sets: their parts are values
\* of different shapes.
ThemeParts == <<None, Malformed, YellowAccentScheme>>

\* the attributes of a <fgColor> or <bgColor>
ColourAttribs ==
    << [indexed |-> str_6],
       [rgb |-> argb_yellow],
       [rgb |-> rgb_yellow_lower],
       [rgb |-> argb_red],
       [theme |-> str_4],
       [theme |-> str_4, tint |-> Tint(-2)] >>

PatternFill(patternType, colours) ==
    Element("fill", NoAttrib,
            << Element("patternFill", [patternType |-> patternType],
                       colours) >>)

Fg(attrib) == Element("fgColor", attrib, <<>>)

Bg(attrib) == Element("bgColor", attrib, <<>>)

\* <fill><patternFill patternType="none"/></fill>, the fill 0 Excel writes
NoFill ==
    PatternFill(<<110, 111, 110, 101>>, <<>>)

SolidIndexed6 == PatternFill(str_solid, <<Fg([indexed |-> str_6])>>)

\* what <fills> holds at position 0 and at position 1
FirstFills == <<NoFill, SolidIndexed6>>

Fills ==
    [n \in DOMAIN ColourAttribs |->
         PatternFill(str_solid, <<Fg(ColourAttribs[n])>>)]
    \o << PatternFill(str_gray125, <<Fg([indexed |-> str_6])>>),
          PatternFill(str_solid, <<Fg([rgb |-> argb_red]),
                                  Bg([indexed |-> str_6])>>) >>

Xf(fillId) == Element("xf", [fillId |-> fillId], <<>>)

\* xl/styles.xml in the order of the schema: fills, cellStyleXfs, cellXfs
\* and, when dxf is a fill, dxfs with that fill as a differential format
StyleSheet(fills, xfs, dxf) ==
    Element("styleSheet", NoAttrib,
            << Element("fills", NoAttrib, fills),
               Element("cellStyleXfs", NoAttrib, <<Xf(str_0)>>),
               Element("cellXfs", NoAttrib, xfs) >>
            \o (IF dxf = None THEN <<>>
                ELSE << Element("dxfs", NoAttrib,
                                <<Element("dxf", NoAttrib, <<dxf>>)>>) >>))

CellXfs == << <<Xf(str_0), Xf(str_1)>>, <<Xf(str_1), Xf(str_0)>> >>

Dxfs == <<None, SolidIndexed6>>

Cell(attrib) == Element("c", attrib, <<>>)

\* the cells of the one row of the one worksheet: A1 without s, with
\* s="0" or with s="1", alone or followed by B1 with s="1"
CellsA1 ==
    << Cell([r |-> ref_A1]), Cell([r |-> ref_A1, s |-> str_0]),
       Cell([r |-> ref_A1, s |-> str_1]) >>

Rows ==
    [n \in DOMAIN CellsA1 |-> <<CellsA1[n]>>]
    \o [n \in DOMAIN CellsA1 |->
            <<CellsA1[n], Cell([r |-> ref_B1, s |-> str_1])>>]

\* a readable package: its theme part, its style sheet and one worksheet,
\* "Data"
Package(theme_part, styles_part, row) ==
    [theme |-> theme_part, styles |-> styles_part,
     sheets |-> << [name |-> "Data", cells |-> row] >>]

scanVars == <<_PROCESSORS, _CHECKS, pc, runVars, on_progress, args, returned>>

\* the workbook is one of the packages
SomePackage ==
    /\ \E t \in DOMAIN ThemeParts, r \in DOMAIN Rows :
          \/ workbook = Package(ThemeParts[t], None, Rows[r])
          \/ workbook = Package(ThemeParts[t], Malformed, Rows[r])
          \/ \E f0 \in DOMAIN FirstFills, f1 \in DOMAIN Fills,
                x \in DOMAIN CellXfs, d \in DOMAIN Dxfs :
                workbook = Package(ThemeParts[t],
                                   StyleSheet(<<FirstFills[f0], Fills[f1]>>,
                                              CellXfs[x], Dxfs[d]),
                                   Rows[r])

\* a package is at hand and neither locator has been called
InitXlsx ==
    /\ InitScan
    /\ on_progress = FALSE
    /\ SomePackage
    /\ streaming_cells = <<>>
    /\ openpyxl_cells = <<>>
    /\ NoApplication

\* xl/styles.xml is not well-formed: iterparse raises ParseError inside
\* _parse_styles_for_yellow, and so does openpyxl's reader inside
\* load_workbook; neither list_yellow_cells has a handler for it
StylesParseError(wb) == wb.styles = Malformed

LocatorCalls(who) ==
    {n \in DOMAIN calls :
        calls[n].op = "list_yellow_cells" /\ calls[n].who = who}

\* services.xlsx_locators.list_yellow_cells(path) returns; streaming_cells
\* holds what the calls so far have returned
StreamingLocate ==
    /\ workbook # None
    /\ ~StylesParseError(workbook)
    /\ streaming_cells = <<>>
    /\ streaming_cells' = <<list_yellow_cells(workbook)>>
    /\ UNCHANGED <<scanVars, workbook, openpyxl_cells>>

\* services.xlsx_locators.list_yellow_cells(path) raises
StreamingLocateRaises ==
    /\ workbook # None
    /\ StylesParseError(workbook)
    /\ LocatorCalls("xlsx_locators") = {}
    /\ calls' = Append(calls, Call("list_yellow_cells", "xlsx_locators",
                                   d_xlsx, TRUE, None))
    /\ UNCHANGED <<_PROCESSORS, _CHECKS, pc, file_list, proc_index, i,
                   artifact, chks, k, results, scan, otherVars>>

OpenpyxlLocate ==
    /\ workbook # None
    /\ ~StylesParseError(workbook)
    /\ openpyxl_cells = <<>>
    /\ openpyxl_cells' = <<openpyxl_list_yellow_cells(workbook)>>
    /\ UNCHANGED <<scanVars, workbook, streaming_cells>>

\* services.xlsx_locators_openpyxl.list_yellow_cells(path) raises
OpenpyxlLocateRaises ==
    /\ workbook # None
    /\ StylesParseError(workbook)
    /\ LocatorCalls("xlsx_locators_openpyxl") = {}
    /\ calls' = Append(calls, Call("list_yellow_cells",
                                   "xlsx_locators_openpyxl", d_xlsx, TRUE,
                                   None))
    /\ UNCHANGED <<_PROCESSORS, _CHECKS, pc, file_list, proc_index, i,
                   artifact, chks, k, results, scan, otherVars>>

NextXlsx ==
    \/ StreamingLocate
    \/ StreamingLocateRaises
    \/ OpenpyxlLocate
    \/ OpenpyxlLocateRaises

SpecXlsx == InitXlsx /\ [][NextXlsx]_vars

\* ------------------------------------------- the colour references examined
str_5         == <<53>>                                   \* "5"
hex_FFFF01    == <<70, 70, 70, 70, 48, 49>>               \* "FFFF01"
argb_00FFFF00 == <<48, 48, 70, 70, 70, 70, 48, 48>>       \* "00FFFF00"

RgbValues == {hex_FFFF00, argb_00FFFF00, rgb_yellow_lower, hex_FFFF01, argb_red}

IndexedValues == {str_6, str_5}

\* accent1, yellow in YellowAccentScheme, and dk1, black
ThemeValues == {str_4, str_1}

\* tints of -0.5, 0 and 0.5
TintValues == {-2, 0, 2}

\* the attributes of a <fgColor>, <bgColor> or <tabColor>: any of rgb,
\* indexed, theme and tint
ColourRef(keys, rgb, indexed, theme, tint) ==
    [key \in keys |->
         CASE key = "rgb"     -> rgb
           [] key = "indexed" -> indexed
           [] key = "theme"   -> theme
           [] key = "tint"    -> Tint(tint)]

\* a colour reference and the theme part of its package are at hand
InitColour ==
    /\ InitScan
    /\ on_progress = FALSE
    /\ NoWorkbook
    /\ \E keys \in SUBSET {"rgb", "indexed", "theme", "tint"},
          rgb \in RgbValues, indexed \in IndexedValues,
          theme \in ThemeValues, tint \in TintValues,
          t \in DOMAIN ThemeParts :
          args = [attrs |-> ColourRef(keys, rgb, indexed, theme, tint),
                  theme |-> ThemeParts[t]]
    /\ returned = <<>>

Applied(fn) == \E n \in DOMAIN returned : returned[n].fn = fn

Return(fn, value) == [fn |-> fn, value |-> value]

\* the streaming locator classifies the raw attributes
ClassifyAttrs ==
    /\ ~Applied("_color_attrs_are_classic_yellow")
    /\ returned' =
           Append(returned,
                  Return("_color_attrs_are_classic_yellow",
                         _color_attrs_are_classic_yellow(
                             args.attrs, theme_rgb_map_from_zip(args.theme))))
    /\ UNCHANGED <<_PROCESSORS, _CHECKS, pc, runVars, on_progress, workbook,
                   streaming_cells, openpyxl_cells, args>>

\* the object-model locator and the processor classify the Color that
\* openpyxl made of the attributes
ClassifyObject ==
    /\ ~Applied("_color_obj_is_classic_yellow")
    /\ returned' =
           Append(returned,
                  Return("_color_obj_is_classic_yellow",
                         _color_obj_is_classic_yellow(
                             ColorObject(args.attrs),
                             theme_rgb_map_from_zip(args.theme))))
    /\ UNCHANGED <<_PROCESSORS, _CHECKS, pc, runVars, on_progress, workbook,
                   streaming_cells, openpyxl_cells, args>>

NextColour ==
    \/ ClassifyAttrs
    \/ ClassifyObject

SpecColour == InitColour /\ [][NextColour]_vars

\* ------------------------------------------------- the tints examined
\* the values of a colour channel
Channels == 0..255

\* a base colour with the channels c, c and 255 - c
BaseRgb(c) == Format02X(c) \o Format02X(c) \o Format02X(255 - c)

\* a palette with one base colour at theme index 4 and a tint in [-1, 1],
\* or no tint, are at hand
InitTint ==
    /\ InitScan
    /\ on_progress = FALSE
    /\ NoWorkbook
    /\ \E c \in Channels :
          \/ \E q \in -TintDen..TintDen :
                args = [theme_map |-> Put(<<>>, 4, BaseRgb(c)),
                        theme_idx |-> str_4, tint |-> Tint(q)]
          \/ args = [theme_map |-> Put(<<>>, 4, BaseRgb(c)),
                     theme_idx |-> str_4, tint |-> None]
    /\ returned = <<>>

ResolveThemeColor ==
    /\ ~Applied("resolve_theme_color")
    /\ returned' =
           Append(returned,
                  Return("resolve_theme_color",
                         resolve_theme_color(args.theme_map, args.theme_idx,
                                             args.tint)))
    /\ UNCHANGED <<_PROCESSORS, _CHECKS, pc, runVars, on_progress, workbook,
                   streaming_cells, openpyxl_cells, args>>

SpecTint == InitTint /\ [][ResolveThemeColor]_vars

\* ------------------------------------------- the sheet scans examined
\* the style indices and the fill identifiers of a small style table
StyleIds == 0..1

\* the cells of a worksheet, a style table over some of the style indices
\* and a set of yellow fill identifiers are at hand
InitSheet ==
    /\ InitScan
    /\ on_progress = FALSE
    /\ NoWorkbook
    /\ \E r \in DOMAIN Rows, D \in SUBSET StyleIds, y \in SUBSET StyleIds :
          \E m \in [D -> StyleIds] :
              args = [cells |-> Rows[r], sheet_name |-> "Data",
                      style_to_fill |-> m, yellow_fill_ids |-> y]
    /\ returned = <<>>

YieldSheetCells ==
    /\ ~Applied("_yield_sheet_cells_with_yellow")
    /\ returned' =
           Append(returned,
                  Return("_yield_sheet_cells_with_yellow",
                         _yield_sheet_cells_with_yellow(
                             args.cells, args.sheet_name, args.style_to_fill,
                             args.yellow_fill_ids)))
    /\ UNCHANGED <<_PROCESSORS, _CHECKS, pc, runVars, on_progress, workbook,
                   streaming_cells, openpyxl_cells, args>>

SpecSheet == InitSheet /\ [][YieldSheetCells]_vars

\* ======================================================= scanning .xlsx
\* ------------------------------------------ processors/xlsx_processor.py
\* a file of the root that is no OOXML package: an OLE compound file
\* (password-encrypted workbooks) or a file that is no zip archive
OleContainer == [unreadable |-> "ole"]

CorruptZip == [unreadable |-> "not a zip"]

\* the metadata XlsxProcessor.build_artifact collects, as far as the checks
\* of the model read them. The sheets of the packages are visible and have
\* no tab colour; the yellow cells are counted with the module's own copy
\* of _is_classic_yellow_fill over the cells openpyxl loaded.
Metadata(read_error, detail, encrypted, yellow_cells) ==
    [read_error |-> read_error, read_error_detail |-> detail,
     password_encrypted_workbook |-> encrypted,
     workbook_structure_protected |-> FALSE,
     hidden_sheet_count |-> 0, very_hidden_sheet_count |-> 0,
     yellow_cell_count |-> yellow_cells, yellow_tab_sheet_count |-> 0]

build_artifact(path, wb) ==
    [path |-> path, extension |-> ext_xlsx,
     metadata |->
         IF wb = OleContainer
         THEN Metadata(TRUE, "Encrypted or non-OOXML container (OLE compound)",
                       TRUE, 0)
         ELSE IF wb = CorruptZip
         THEN Metadata(TRUE, "File is not a zip file", FALSE, 0)
         ELSE IF StylesParseError(wb)
         THEN Metadata(TRUE, "ParseError", FALSE, 0)
         ELSE Metadata(FALSE, "", FALSE,
                       Len(openpyxl_list_yellow_cells(wb)))]

\* ------------------------------------------------- checks/xlsx_checks.py
\* the XLSX checks of the model, in the order in which the module
\* registers them
XlsxChecks ==
    <<"XlsxHiddenSheetsCheck", "XlsxWorkbookProtectionCheck",
      "XlsxYellowCellsCheck", "XlsxYellowSheetTabsCheck">>

_unreadable_result(art, check_name, meta) ==
    CheckResult(art.path, check_name, "WARNING", FALSE,
                [read_error |-> TRUE,
                 read_error_detail |-> meta.read_error_detail])

\* the two yellow checks call _unreadable_result(self.name(),
\* self.description(), meta): three arguments for four parameters, which
\* raises TypeError
RunRaisesTypeError(c, art) ==
    /\ c \in {"XlsxYellowCellsCheck", "XlsxYellowSheetTabsCheck"}
    /\ art.metadata.read_error

\* what run(artifact) returns when it returns
XlsxRunResult(c, art) ==
    LET meta == art.metadata
        Outcome(passed, failed_severity, extra) ==
            CheckResult(art.path, name(c),
                        IF passed THEN "INFO" ELSE failed_severity, passed,
                        extra)
    IN  CASE c = "XlsxWorkbookProtectionCheck"
               /\ meta.password_encrypted_workbook ->
                 CheckResult(art.path, name(c), "ERROR", FALSE,
                             [password_encrypted_workbook |-> TRUE,
                              read_error |-> meta.read_error,
                              read_error_detail |-> meta.read_error_detail])
          [] c \in {"XlsxHiddenSheetsCheck", "XlsxWorkbookProtectionCheck"}
               /\ ~(c = "XlsxWorkbookProtectionCheck"
                    /\ meta.password_encrypted_workbook)
               /\ meta.read_error ->
                 _unreadable_result(art, name(c), meta)
          [] c = "XlsxHiddenSheetsCheck" /\ ~meta.read_error ->
                 Outcome(meta.hidden_sheet_count = 0
                         /\ meta.very_hidden_sheet_count = 0, "ERROR",
                         [hidden_sheet_count |-> meta.hidden_sheet_count,
                          very_hidden_sheet_count |->
                              meta.very_hidden_sheet_count])
          [] c = "XlsxWorkbookProtectionCheck" /\ ~meta.read_error
               /\ ~meta.password_encrypted_workbook ->
                 Outcome(~meta.workbook_structure_protected, "WARNING",
                         [password_encrypted_workbook |-> FALSE,
                          workbook_structure_protected |->
                              meta.workbook_structure_protected])
          [] c = "XlsxYellowCellsCheck" ->
                 Outcome(meta.yellow_cell_count = 0, "ERROR",
                         [yellow_cell_count |-> meta.yellow_cell_count])
          [] c = "XlsxYellowSheetTabsCheck" ->
                 Outcome(meta.yellow_tab_sheet_count = 0, "ERROR",
                         [yellow_tab_sheet_count |->
                              meta.yellow_tab_sheet_count])

\* ------------------------------------------------- the scan of the root
\* The root holds one file, d.xlsx, whose content is the workbook; the
\* plugin modules have been imported, which registers XlsxProcessor and
\* the XLSX checks.
InitXlsxScan ==
    /\ _PROCESSORS = <<"XlsxProcessor">>
    /\ _CHECKS = XlsxChecks
    /\ pc = "idle"
    /\ file_list = <<>>
    /\ proc_index = <<>>
    /\ i = 0
    /\ artifact = None
    /\ chks = <<>>
    /\ k = 0
    /\ results = <<>>
    /\ calls = <<>>
    /\ scan = None
    /\ on_progress = FALSE
    /\ SomePackage \/ workbook = OleContainer \/ workbook = CorruptZip
    /\ streaming_cells = <<>>
    /\ openpyxl_cells = <<>>
    /\ NoApplication

\* run_scan_v2(root)
ScanXlsxRoot == StartScan(<<d_xlsx>>)

\* The body of the file loop for the .xlsx file (orchestrator.py:89-97):
\* _safe_build_artifact and the read of checks(). run_scan never gets
\* there, since iter_target_files does not yield the file; the two actions
\* are what a caller gets that hands the file to the processor and the
\* artifact to _safe_run_check as the loop would.
BuildXlsxArtifact ==
    /\ pc = "idle"
    /\ artifact = None
    /\ artifact' = build_artifact(d_xlsx, workbook)
    /\ calls' = Append(calls, Call("build_artifact", "XlsxProcessor", d_xlsx,
                                   FALSE, None))
    /\ chks' = _CHECKS
    /\ k' = 1
    /\ pc' = "checks"
    /\ UNCHANGED <<otherVars, _PROCESSORS, _CHECKS, file_list, proc_index, i,
                   results, scan>>

\* _safe_run_check(chk, artifact, report) for the next XLSX check
SafeRunXlsxCheck ==
    /\ InChecks
    /\ artifact # None
    /\ LET raised == RunRaisesTypeError(chk, artifact)
           result == IF raised
                     THEN CheckCrashResult(chk, artifact, "TypeError")
                     ELSE XlsxRunResult(chk, artifact)
       IN  /\ calls' = Append(calls, Call("run", chk, artifact.path, raised,
                                          IF raised THEN None ELSE result))
           /\ results' = Append(results, result)
    /\ k' = NextCheck(k, FALSE)
    /\ UNCHANGED <<otherVars, _PROCESSORS, _CHECKS, pc, file_list, proc_index,
                   i, artifact, chks, scan>>

NextXlsxScan ==
    \/ ScanXlsxRoot
    \/ ReturnReport
    \/ BuildXlsxArtifact
    \/ SafeRunXlsxCheck

SpecXlsxScan == InitXlsxScan /\ [][NextXlsxScan]_vars

\* =============================================================== claims
Range(sq) == {sq[n] : n \in DOMAIN sq}

ResultsFor(f) == SelectSeq(results, LAMBDA r : r.file = f)

CallsFor(op, f) == {n \in DOMAIN calls : calls[n].op = op /\ calls[n].file = f}

RunCalls(f, c) == {n \in CallsFor("run", f) : calls[n].who = c}

RunsOf(c) == {n \in DOMAIN calls : calls[n].op = "run" /\ calls[n].who = c}

BuiltOk(f) == \E n \in CallsFor("build_artifact", f) : ~calls[n].raised

ExtOf(f) == Lower(Suffix(f))

\* the built files of the run a registered check applies to
AppliesTo(c) ==
    {j \in DOMAIN file_list :
        BuiltOk(file_list[j]) /\ _check_applies(applies_to(c), ExtOf(file_list[j]))}

\* a file of the list has been dealt with: it was routed to a processor or
\* reported as having none
Visits(f) ==
    Cardinality(CallsFor("build_artifact", f))
    + Cardinality({n \in DOMAIN results :
                      results[n].file = f
                      /\ results[n].check_name = "No processor found"})

AllVisitedOnce == \A j \in DOMAIN file_list : Visits(file_list[j]) = 1

\* the file loop has left position j behind
Passed(j) == j < i /\ (pc = "done" => AllVisitedOnce)

\* C1: when a check's run raises for a file, exactly one result is recorded
\* for that file and check, named name(), ERROR, not passed, carrying the
\* exception class; a check whose every run raised has, at the end of the
\* run, as many such results as there are built files it applies to.
C1_CheckCrashIsolation ==
    /\ \A n \in DOMAIN calls :
          (calls[n].op = "run" /\ calls[n].raised) =>
              LET hits == {m \in DOMAIN results :
                              /\ results[m].file = calls[n].file
                              /\ results[m].check_name = name(calls[n].who)}
              IN  /\ Cardinality(hits) = 1
                  /\ \A m \in hits :
                        /\ results[m].severity = "ERROR"
                        /\ ~results[m].passed
                        /\ results[m].extra.exception
                               = RunException(calls[n].who)
    /\ pc = "done" =>
          \A c \in Range(_CHECKS) :
              (\A n \in RunsOf(c) : calls[n].raised) =>
                  Cardinality({m \in DOMAIN results :
                                  /\ results[m].check_name = name(c)
                                  /\ results[m].severity = "ERROR"
                                  /\ ~results[m].passed})
                      = Cardinality(AppliesTo(c))

\* a finished run in which one check raised for two built files while
\* another check returned
C1_Witness ==
    /\ pc = "done"
    /\ \E c \in Range(_CHECKS) :
          /\ Cardinality(RunsOf(c)) >= 2
          /\ \A n \in RunsOf(c) : calls[n].raised
          /\ \E d \in Range(_CHECKS) \ {c} :
                \E n \in RunsOf(d) : ~calls[n].raised

\* what check c contributes to the results of file f: what its run returned,
\* or the synthetic result of its crash
Contribution(f, c) ==
    LET n == CHOOSE n \in RunCalls(f, c) : TRUE
    IN  IF calls[n].raised
        THEN [file |-> f, check_name |-> name(c), severity |-> "ERROR",
              passed |-> FALSE,
              extra |-> [exception |-> RunException(c), extension |-> <<>>]]
        ELSE calls[n].ret

OtherChecks(f, bad) ==
    SelectSeq(_CHECKS,
              LAMBDA c : c # bad /\ _check_applies(applies_to(c), ExtOf(f)))

C3_ArtifactBuildFailure ==
    \A j \in DOMAIN file_list :
        \A n \in CallsFor("build_artifact", file_list[j]) :
            calls[n].raised =>
                /\ ResultsFor(file_list[j])
                     = << [file |-> file_list[j],
                           check_name |-> "Artifact build failed",
                           severity |-> "ERROR",
                           passed |-> FALSE,
                           extra |-> [exception |-> BuildException(calls[n].who),
                                      extension |-> <<>>]] >>
                /\ CallsFor("run", file_list[j]) = {}
                /\ Passed(j)

\* the build of the first file failed and a check ran for the second file
C3_Witness ==
    /\ pc = "done"
    /\ Len(file_list) >= 2
    /\ \E n \in CallsFor("build_artifact", file_list[1]) : calls[n].raised
    /\ CallsFor("run", file_list[2]) # {}

\* C4: a file of the list whose lower-cased extension is not in the index
\* has exactly one result, "No processor found" (WARNING, not passed, the
\* extension in extra), neither build_artifact nor a check is called for
\* it, and the file loop goes on to the next file.
C4_NoProcessor ==
    \A j \in DOMAIN file_list :
        (j < i /\ ExtOf(file_list[j]) \notin DOMAIN proc_index) =>
            /\ ResultsFor(file_list[j])
                 = << [file |-> file_list[j],
                       check_name |-> "No processor found",
                       severity |-> "WARNING",
                       passed |-> FALSE,
                       extra |-> [exception |-> "",
                                  extension |-> ExtOf(file_list[j])]] >>
            /\ CallsFor("build_artifact", file_list[j]) = {}
            /\ CallsFor("run", file_list[j]) = {}
            /\ Passed(j)

\* the first file has no processor, the second one was built and checked
C4_Witness ==
    /\ pc = "done"
    /\ Len(file_list) >= 2
    /\ ExtOf(file_list[1]) \notin DOMAIN proc_index
    /\ CallsFor("run", file_list[2]) # {}

\* C5: no exception of a plugin call -- supports, build_artifact,
\* applies_to, name or run -- leaves run_scan / run_scan_v2.
C5_NoPluginFailureAborts == pc # "crashed"

\* the work a started scan has left: the files not finished, whether the
\* current one still has to be routed, the checks of it not yet visited
Rank ==
    CASE pc = "loop"   -> <<Len(file_list) + 1 - i, 1, 0>>
      [] pc = "checks" -> <<Len(file_list) + 1 - i, 0, Len(chks) + 1 - k>>
      [] OTHER         -> <<0, 0, 0>>

LexLess(x, y) ==
    \/ x[1] < y[1]
    \/ x[1] = y[1] /\ x[2] < y[2]
    \/ x[1] = y[1] /\ x[2] = y[2] /\ x[3] < y[3]

\* the file loop is exhausted: run_scan returns (the guard of ReturnReport)
LoopExhausted == pc = "loop" /\ i > Len(file_list)

\* C6: a scan always completes. A started scan can always take its next
\* step, every step strictly reduces the work left (a triple of naturals,
\* compared lexicographically), so the scan reaches its end; and at its end
\* there is a ScanReport and every file of the list was visited exactly
\* once -- also when no file could be built.
C6_ScanAlwaysCompletes ==
    /\ [](pc \in {"loop", "checks"} =>
            /\ (ENABLED LoopStep) \/ LoopExhausted
            /\ \A n \in 1..3 : Rank[n] >= 0)
    /\ [][ScanStep => LexLess(Rank', Rank)]_vars
    /\ [](pc = "done" => scan # None /\ AllVisitedOnce)

\* a finished scan of two files, one without processor and one whose build
\* failed
C6_Witness ==
    /\ pc = "done"
    /\ scan # None
    /\ Len(file_list) >= 2
    /\ \E j \in DOMAIN file_list : ExtOf(file_list[j]) \notin DOMAIN proc_index
    /\ \E j \in DOMAIN file_list :
          \E n \in CallsFor("build_artifact", file_list[j]) : calls[n].raised
    /\ \A j \in DOMAIN file_list : ~BuiltOk(file_list[j])

Reports == IF scan = None THEN {} ELSE Range(scan.files)

HasFailed(rs, sev) ==
    \E n \in DOMAIN rs : rs[n].severity = sev /\ ~rs[n].passed

\* C7: a FileReport's verdict is FAIL iff it holds a failed ERROR result
\* (errors > 0), else WARN iff it holds a failed WARNING result
\* (warnings > 0), else PASS.
C7_VerdictInvariant ==
    \A fr \in Reports :
        /\ fr.verdict \in {"FAIL", "WARN", "PASS"}
        /\ fr.verdict = "FAIL" <=> HasFailed(fr.results, "ERROR")
        /\ fr.verdict = "FAIL" <=> fr.errors > 0
        /\ fr.verdict = "WARN" <=>
              (~HasFailed(fr.results, "ERROR") /\ HasFailed(fr.results, "WARNING"))
        /\ fr.verdict = "WARN" <=> (fr.errors = 0 /\ fr.warnings > 0)

\* a report with a failed ERROR and a failed WARNING result, next to a
\* report whose only ERROR-severity result passed
C7_Witness ==
    /\ \E fr \in Reports :
          HasFailed(fr.results, "ERROR") /\ HasFailed(fr.results, "WARNING")
    /\ \E fr \in Reports :
          /\ fr.verdict # "FAIL"
          /\ \E n \in DOMAIN fr.results :
                fr.results[n].severity = "ERROR" /\ fr.results[n].passed

RECURSIVE CountWhere(_, _, _)
CountWhere(rs, sev, outcomes) ==
    IF rs = <<>> THEN 0
    ELSE (IF Head(rs).severity = sev /\ Head(rs).passed \in outcomes
          THEN 1 ELSE 0)
         + CountWhere(Tail(rs), sev, outcomes)

\* C8: errors counts the failed ERROR results, warnings the failed WARNING
\* results, infos every INFO result; a passed ERROR or WARNING result is in
\* none of the three and a report with only such results is PASS.
C8_PerFileCounts ==
    \A fr \in Reports :
        /\ fr.errors = CountWhere(fr.results, "ERROR", {FALSE})
        /\ fr.warnings = CountWhere(fr.results, "WARNING", {FALSE})
        /\ fr.infos = CountWhere(fr.results, "INFO", BOOLEAN)
        /\ fr.errors + fr.warnings + fr.infos
             = Len(fr.results) - CountWhere(fr.results, "ERROR", {TRUE})
                               - CountWhere(fr.results, "WARNING", {TRUE})
        /\ (\A n \in DOMAIN fr.results :
                fr.results[n].severity \in {"ERROR", "WARNING"}
                /\ fr.results[n].passed)
           => fr.verdict = "PASS"

\* a report with a passed WARNING and a failed INFO result, next to a
\* report of another file
C8_Witness ==
    /\ \E fr \in Reports :
          /\ CountWhere(fr.results, "WARNING", {TRUE}) > 0
          /\ CountWhere(fr.results, "INFO", {FALSE}) > 0
    /\ Cardinality(Reports) = 2

RECURSIVE SumOver(_, _)
SumOver(frs, field) ==
    IF frs = <<>> THEN 0
    ELSE (CASE field = "errors"   -> Head(frs).errors
            [] field = "warnings" -> Head(frs).warnings
            [] field = "infos"    -> Head(frs).infos
            [] field = "results"  -> Len(Head(frs).results))
         + SumOver(Tail(frs), field)

\* C9: the header's total_errors, total_warnings and total_infos are the
\* sums of the FileReports' counts, and total_checks is the number of
\* CheckResults in all FileReports.
C9_HeaderTotals ==
    scan # None =>
        /\ scan.header.total_errors = SumOver(scan.files, "errors")
        /\ scan.header.total_warnings = SumOver(scan.files, "warnings")
        /\ scan.header.total_infos = SumOver(scan.files, "infos")
        /\ scan.header.total_checks = SumOver(scan.files, "results")

\* a report of two files with more results than files and a non-zero total
\* of each kind
C9_Witness ==
    /\ scan # None
    /\ Len(scan.files) = 2
    /\ scan.header.total_checks > 2
    /\ scan.header.total_errors > 0
    /\ scan.header.total_warnings > 0

\* C10: every result of the run is in exactly one FileReport, the one of
\* its file; none is lost or doubled, and a FileReport holds its results in
\* the order in which they were produced.
C10_GroupingIsPartition ==
    scan # None =>
        /\ \A m \in DOMAIN results :
              Cardinality({n \in DOMAIN scan.files :
                              scan.files[n].file = results[m].file}) = 1
        /\ \A n \in DOMAIN scan.files :
              /\ scan.files[n].results # <<>>
              /\ scan.files[n].results = ResultsFor(scan.files[n].file)
        /\ SumOver(scan.files, "results") = Len(results)

\* two files with two results each, collected one file after the other
C10_Witness ==
    /\ scan # None
    /\ Len(scan.files) = 2
    /\ \A n \in DOMAIN scan.files : Len(scan.files[n].results) = 2

\* the files of the list without any CheckResult
ZeroResultFiles == {j \in DOMAIN file_list : ResultsFor(file_list[j]) = <<>>}

\* C11: a discovered file for which the run recorded no CheckResult still
\* has a FileReport -- PASS, errors = warnings = infos = 0 -- and counts in
\* header.total_files, so total_files is the number of discovered files.
C11_ZeroResultFileReported ==
    scan # None =>
        /\ \A j \in ZeroResultFiles :
              \E fr \in Reports :
                  /\ fr.file = file_list[j]
                  /\ fr.verdict = "PASS"
                  /\ fr.errors = 0 /\ fr.warnings = 0 /\ fr.infos = 0
        /\ scan.header.total_files = Len(file_list)

\* C12: the FileReports of a ScanReport are in non-decreasing order of
\* their path, the paths compared lower-cased.
C12_ReportOrdering ==
    scan # None =>
        \A n, m \in DOMAIN scan.files :
            n < m => ~StrLess(Lower(scan.files[m].file), Lower(scan.files[n].file))

\* "B.docx" was discovered and reported before "a.pdf", and the report
\* lists "a.pdf" first: the order is neither that of discovery nor that of
\* the code points
C12_Witness ==
    /\ scan # None
    /\ file_list = <<B_docx, a_pdf>>
    /\ Len(scan.files) = 2
    /\ scan.files[1].file = a_pdf
    /\ scan.files[2].file = B_docx

\* the calls of the progress callback, in order
ProgressCalls == SelectSeq(calls, LAMBDA c : c.op = "on_progress")

\* the files whose iteration of the file loop has begun
Begun == CASE pc = "loop"   -> i - 1
           [] pc = "checks" -> i
           [] pc = "done"   -> Len(file_list)
           [] OTHER         -> 0

\* C13: an orchestrator with a callback calls it exactly once per discovered
\* file -- also for a file without processor or whose build fails -- with
\* (i, total, path), i running through 1..total in order and total the
\* number of discovered files; the call precedes every processor and check
\* call for that file; a run over no file never calls it.
C13_ProgressNotification ==
    on_progress =>
        /\ Len(ProgressCalls) = Begun
        /\ \A n \in DOMAIN ProgressCalls :
              /\ ProgressCalls[n].i = n
              /\ ProgressCalls[n].total = Len(file_list)
              /\ ProgressCalls[n].file = file_list[n]
        /\ \A n \in DOMAIN calls :
              calls[n].op \in {"build_artifact", "run"} =>
                  \E m \in 1..(n - 1) :
                      /\ calls[m].op = "on_progress"
                      /\ calls[m].file = calls[n].file
        /\ (pc = "done" /\ file_list = <<>>) => calls = <<>>

\* a finished run that notified twice: for a file without processor and
\* for a file whose build failed
C13_Witness ==
    /\ on_progress
    /\ pc = "done"
    /\ Len(ProgressCalls) = 2
    /\ ExtOf(file_list[1]) \notin DOMAIN proc_index
    /\ \E n \in CallsFor("build_artifact", file_list[2]) : calls[n].raised

NoTwoOfOneType(store) ==
    \A n, m \in DOMAIN store : store[n] = store[m] => n = m

\* C14: after any sequence of register_processor, register_check and
\* clear_registry, neither catalog holds two instances of one concrete
\* type, and registering an instance whose concrete type is present leaves
\* the catalog as it is, content and order.
C14_IdempotentRegistration ==
    /\ [](NoTwoOfOneType(_PROCESSORS) /\ NoTwoOfOneType(_CHECKS))
    /\ [][/\ \A p \in Range(_PROCESSORS) :
               register_processor(p) => _PROCESSORS' = _PROCESSORS
          /\ \A c \in Range(_CHECKS) :
               register_check(c) => _CHECKS' = _CHECKS]_vars

\* both catalogs hold a class next to a class that extends it, and every
\* processor class is registered: each further register_processor is a
\* repeated registration
C14_Witness ==
    /\ _PROCESSORS = <<"OfficeProcessor", "PdfProcessor", "PdfOcrProcessor">>
    /\ _CHECKS = <<"ErrCheck", "StrictErrCheck">>

\* C15: registration is keyed by the concrete type alone: an instance whose
\* concrete type differs from that of every registered entry is appended at
\* the end of its catalog, whatever was registered before it.
C15_KeyedByConcreteType ==
    pc = "idle" =>
        /\ \A p \in ProcClasses \ Range(_PROCESSORS) :
              ENABLED (/\ register_processor(p)
                       /\ _PROCESSORS' = Append(_PROCESSORS, p))
        /\ \A c \in CheckClasses \ Range(_CHECKS) :
              Len(_CHECKS) < MaxChecks =>
                  ENABLED (/\ register_check(c)
                           /\ _CHECKS' = Append(_CHECKS, c))

\* the registered processors that support extension e, compared lower-cased
Supporters(e) ==
    {n \in DOMAIN _PROCESSORS :
        \E m \in DOMAIN supports(_PROCESSORS[n]) :
            Lower(supports(_PROCESSORS[n])[m]) = e}

SupportedExts ==
    UNION {{Lower(supports(p)[m]) : m \in DOMAIN supports(p)} :
              p \in Range(_PROCESSORS)}

LatestSupporter(e) ==
    _PROCESSORS[CHOOSE n \in Supporters(e) : \A m \in Supporters(e) : m <= n]

\* C16: the index of a run maps each lower-cased extension that a registered
\* processor supports to the processor registered latest among those that
\* support it, whatever the case in which they declare it, and a file with
\* that extension is built by that processor, once.
C16_LastRegistrationWins ==
    pc \in {"loop", "checks", "done"} =>
        /\ DOMAIN proc_index = SupportedExts
        /\ \A e \in SupportedExts : proc_index[e] = LatestSupporter(e)
        /\ \A n \in DOMAIN calls :
              calls[n].op = "build_artifact" =>
                  calls[n].who = LatestSupporter(ExtOf(calls[n].file))
        /\ \A j \in DOMAIN file_list :
              (j < i /\ ExtOf(file_list[j]) \in SupportedExts) =>
                  Cardinality(CallsFor("build_artifact", file_list[j])) = 1

\* PdfProcessor (".pdf") was registered before OfficeProcessor (".PDF"),
\* and "a.pdf" was built by OfficeProcessor
C16_Witness ==
    /\ pc = "done"
    /\ _PROCESSORS = <<"PdfProcessor", "OfficeProcessor">>
    /\ \E n \in CallsFor("build_artifact", a_pdf) :
          calls[n].who = "OfficeProcessor"

\* the extensions check c declares, lower-cased
Targets(c) == {Lower(applies_to(c)[m]) : m \in DOMAIN applies_to(c)}

\* C17: for a file whose artifact was built and whose check loop is over,
\* the run of a registered check was called exactly once if the check
\* declares the file's extension or "*" (compared lower-cased) and not at
\* all otherwise, and the file has exactly one result per applicable check;
\* while the loop is under way no run is called twice or for a check that
\* does not apply.
C17_CheckApplicability ==
    pc \in {"loop", "checks", "done"} =>
        \A j \in DOMAIN file_list :
            \A c \in Range(_CHECKS) :
                LET f == file_list[j]
                    applicable == ExtOf(f) \in Targets(c) \/ ext_star \in Targets(c)
                    runs == Cardinality(RunCalls(f, c))
                    named == Cardinality({m \in DOMAIN results :
                                             /\ results[m].file = f
                                             /\ results[m].check_name = name(c)})
                IN  /\ runs = named
                    /\ runs <= 1
                    /\ ~applicable => runs = 0
                    /\ (j < i /\ BuiltOk(f) /\ applicable) => runs = 1

\* "B.docx" was built; InfoCheck, which declares ".DOCX", ran for it and
\* ErrCheck, which declares ".pdf", did not
C17_Witness ==
    /\ pc = "done"
    /\ _CHECKS = <<"ErrCheck", "InfoCheck">>
    /\ BuiltOk(B_docx)
    /\ RunCalls(B_docx, "InfoCheck") # {}
    /\ RunCalls(B_docx, "ErrCheck") = {}

\* C18: a run works with the processors and checks that were registered
\* when it started: a processor or check registered by a call made during
\* the run builds no artifact and runs for no file of that run.
C18_RegistrySnapshot ==
    \A n \in DOMAIN calls :
        /\ calls[n].op = "build_artifact" =>
              \A m \in 1..(n - 1) :
                  ~(calls[m].op = "register_processor"
                    /\ calls[m].who = calls[n].who)
        /\ calls[n].op = "run" =>
              \A m \in 1..(n - 1) :
                  ~(calls[m].op = "register_check"
                    /\ calls[m].who = calls[n].who)

\* the pairs a call of a locator has returned
Pairs(cells) == Range(cells)

\* C19: whenever both locators have been called on a workbook, the
\* streaming locator and the object-model locator have returned the same
\* set of (sheet_name, cell_reference) pairs.
C19_LocatorsAgree ==
    \A n \in DOMAIN streaming_cells, m \in DOMAIN openpyxl_cells :
        Pairs(streaming_cells[n]) = Pairs(openpyxl_cells[m])

\* the 0-based positions within <fills> of the fills whose patternFill is
\* solid and whose fgColor or bgColor is classic yellow, read from the
\* document itself
SolidYellowFillIds(wb) ==
    LET fills == Section(wb.styles, "fills")
        theme_rgb_map == theme_rgb_map_from_zip(wb.theme)
        SolidYellow(fill) ==
            \E n \in DOMAIN fill.children :
                LET pf == fill.children[n]
                IN  /\ pf.tag = "patternFill"
                    /\ Get(pf.attrib, "patternType") = str_solid
                    /\ \E m \in DOMAIN pf.children :
                          /\ pf.children[m].tag \in {"fgColor", "bgColor"}
                          /\ _color_attrs_are_classic_yellow(
                                 pf.children[m].attrib, theme_rgb_map)
    IN  {n - 1 : n \in {m \in DOMAIN fills : SolidYellow(fills[m])}}

\* the cell has a style index, and the cell format at that position of
\* <cellXfs> names a solid yellow fill
StyleLeadsToYellowFill(wb, c) ==
    LET cellXfs == Section(wb.styles, "cellXfs")
        s == Get(c.attrib, "s")
    IN  /\ IsNumeral(s)
        /\ int(s) + 1 \in DOMAIN cellXfs
        /\ LET fid == Get(cellXfs[int(s) + 1].attrib, "fillId")
           IN  IsNumeral(fid) /\ int(fid) \in SolidYellowFillIds(wb)

\* C20: for a workbook whose styles part declares its fills inside <fills>
\* and its cell formats inside <cellXfs>, the streaming locator returns
\* exactly the (sheet_name, cell_reference) pairs of the cells whose style
\* index leads to a solid fill with a classic yellow fgColor or bgColor.
C20_StreamingLocatorCorrect ==
    \A n \in DOMAIN streaming_cells :
        workbook.styles # None =>
            \A w \in DOMAIN workbook.sheets :
                LET ws == workbook.sheets[w]
                IN  \A j \in DOMAIN ws.cells :
                        "s" \in DOMAIN ws.cells[j].attrib =>
                            (<<ws.name, ws.cells[j].attrib.r>>
                                 \in Pairs(streaming_cells[n])
                             <=> StyleLeadsToYellowFill(workbook,
                                                        ws.cells[j]))

\* C25: for a readable workbook whose styles part or theme part is missing
\* or malformed, the streaming list_yellow_cells does not raise, and it
\* returns the empty list when the styles part is absent.
C25_ResolutionGapsNotRaised ==
    /\ \A n \in LocatorCalls("xlsx_locators") : ~calls[n].raised
    /\ \A n \in DOMAIN streaming_cells :
           workbook.styles = None => streaming_cells[n] = <<>>

\* the workbook with exactly one cell, A1, whose style leads to a solid
\* fill of indexed colour 6
OneYellowCellWorkbook ==
    Package(None, StyleSheet(<<NoFill, SolidIndexed6>>,
                             <<Xf(str_0), Xf(str_1)>>, None),
            <<Cell([r |-> ref_A1, s |-> str_1])>>)

\* C21: when the scan of a root whose one .xlsx file has exactly one cell
\* with a solid indexed-6 fill has returned, the ScanReport has this file
\* with a result of xlsx_yellow_cells of severity ERROR, passed = false
\* and a yellow-cell count of 1.
C21_EndToEndYellowCellScan ==
    (workbook = OneYellowCellWorkbook /\ pc = "done") =>
        \E n \in DOMAIN scan.files :
            /\ scan.files[n].file = d_xlsx
            /\ \E m \in DOMAIN scan.files[n].results :
                  LET r == scan.files[n].results[m]
                  IN  /\ r.check_name = "xlsx_yellow_cells"
                      /\ r.severity = "ERROR"
                      /\ ~r.passed
                      /\ r.extra = [yellow_cell_count |-> 1]

\* C30: for an .xlsx artifact whose metadata has read_error set and that is
\* not flagged as password-encrypted, the run of every XLSX check returns a
\* CheckResult of severity WARNING with passed = false that carries the
\* read-error detail; none raises, and none of them leaves an ERROR result
\* for the file.
C30_UnreadableWorkbookHandling ==
    (/\ artifact # None
     /\ artifact.metadata.read_error
     /\ ~artifact.metadata.password_encrypted_workbook) =>
        /\ \A n \in DOMAIN calls :
               calls[n].op = "run" =>
                   /\ ~calls[n].raised
                   /\ calls[n].ret.severity = "WARNING"
                   /\ ~calls[n].ret.passed
                   /\ calls[n].ret.extra =
                          [read_error |-> TRUE,
                           read_error_detail |->
                               artifact.metadata.read_error_detail]
        /\ \A n \in DOMAIN results : results[n].severity # "ERROR"

\* the three-way test on a colour reference: its rgb, reduced to the last
\* six characters and upper-cased, is FFFF00, or its indexed is 6, or its
\* theme index with its tint resolves to FFFF00
ThreeWayYellow(attrs, theme_part) ==
    \/ /\ "rgb" \in DOMAIN attrs
       /\ LET s == Upper(attrs.rgb)
          IN  Len(s) >= 6 /\ SubSeq(s, Len(s) - 5, Len(s)) = hex_FFFF00
    \/ "indexed" \in DOMAIN attrs /\ attrs.indexed = str_6
    \/ /\ "theme" \in DOMAIN attrs
       /\ resolve_theme_color(theme_rgb_map_from_zip(theme_part), attrs.theme,
                              IF "tint" \in DOMAIN attrs
                              THEN attrs.tint ELSE None) = hex_FFFF00

\* C22: both classifiers say classic yellow exactly for the colour
\* references that pass the three-way test, whatever the other attributes
\* of the reference are.
C22_ThreeWayColourTest ==
    \A n \in DOMAIN returned :
        returned[n].value = ThreeWayYellow(args.attrs, args.theme)

\* C24: when the theme part is absent or malformed, the streaming
\* classifier never says yellow for a reference that has neither rgb nor
\* indexed (a theme index with any tint), and it still says yellow for a
\* reference whose rgb normalizes to FFFF00 or whose indexed is 6.
C24_ThemeFailureSemantics ==
    \A n \in DOMAIN returned :
        (/\ returned[n].fn = "_color_attrs_are_classic_yellow"
         /\ (args.theme = None \/ args.theme = Malformed)) =>
            /\ DOMAIN args.attrs \cap {"rgb", "indexed"} = {}
                   => ~returned[n].value
            /\ ("rgb" \in DOMAIN args.attrs
                /\ args.attrs.rgb \in {hex_FFFF00, argb_00FFFF00,
                                      rgb_yellow_lower})
                   => returned[n].value
            /\ ("indexed" \in DOMAIN args.attrs /\ args.attrs.indexed = str_6)
                   => returned[n].value

\* a reference with only a theme index and a tint has been classified
\* under a malformed theme part
C24_Witness ==
    /\ args.theme = Malformed
    /\ args.attrs = [theme |-> str_4, tint |-> Tint(0)]
    /\ Applied("_color_attrs_are_classic_yellow")

hex_808000 == <<56, 48, 56, 48, 48, 48>>      \* "808000"
hex_7F7F00 == <<55, 70, 55, 70, 48, 48>>      \* "7F7F00"

\* the base colour FFFF00 has been resolved with a tint of -0.5
HalvedYellow ==
    /\ args.theme_map[4] = hex_FFFF00
    /\ args.tint = Tint(-2)

\* C23, as stated: resolving a theme colour whose base is FFFF00 with tint
\* -0.5 yields 7F7F00.
C23_TintExampleAsStated ==
    \A n \in DOMAIN returned : HalvedYellow => returned[n].value = hex_7F7F00

\* C23, amended: resolving a theme colour whose base is FFFF00 with tint
\* -0.5 yields 808000: 255 * 0.5 = 127.5 is rounded to 128.
C23_TintExample ==
    \A n \in DOMAIN returned : HalvedYellow => returned[n].value = hex_808000

C23_Witness == HalvedYellow /\ Applied("resolve_theme_color")

\* the channel of a colour that starts at position p
ChannelAt(rgb, p) == HexByte(SubSeq(rgb, p, p + 1))

\* C29: for every base channel c in 0..255 and every tint t in [-1, 1] the
\* adjusted channel c' lies in 0..255, with 0 <= c' <= c when t < 0 and
\* c <= c' <= 255 when t >= 0; a tint of 0 and an absent tint return the
\* base colour unchanged.
C29_TintBounds ==
    \A n \in DOMAIN returned :
        LET base == args.theme_map[4]
            value == returned[n].value
            t == IF args.tint = None THEN 0 ELSE float(args.tint)
        IN  /\ Len(value) = 6
            /\ \A p \in {1, 3, 5} :
                   /\ ChannelAt(value, p) \in Channels
                   /\ t < 0 => ChannelAt(value, p) <= ChannelAt(base, p)
                   /\ t >= 0 => ChannelAt(base, p) <= ChannelAt(value, p)
            /\ t = 0 => value = base

\* a tint of -0.25 has darkened the channel 200 to 150 and the channel 55
\* to 41
C29_Witness ==
    /\ args.theme_map[4] = BaseRgb(200)
    /\ args.tint = Tint(-1)
    /\ \E n \in DOMAIN returned :
           /\ ChannelAt(returned[n].value, 1) = 150
           /\ ChannelAt(returned[n].value, 5) = 41

\* C26: a cell that carries no explicit style index is classified through
\* fill id 0: when the style table is not empty and fill id 0 is yellow,
\* every cell without an s attribute is among the cells the sheet scan
\* returns.
C26_DefaultStyling ==
    \A n \in DOMAIN returned :
        (DOMAIN args.style_to_fill # {} /\ 0 \in args.yellow_fill_ids)
        => \A c \in DOMAIN args.cells :
               "s" \notin DOMAIN args.cells[c].attrib
               => \E w \in DOMAIN returned[n].value :
                      returned[n].value[w]
                          = <<args.sheet_name, args.cells[c].attrib.r>>

\* the calls of processors and checks in the call history
PluginCalls == {n \in DOMAIN calls : calls[n].op \in {"build_artifact", "run"}}

DiscoveryPosition(f) == CHOOSE n \in DOMAIN file_list : file_list[n] = f

RegistryPosition(c) == CHOOSE n \in DOMAIN _CHECKS : _CHECKS[n] = c

\* the place of a plugin call within the handling of its file:
\* build_artifact first, then the checks in registry order
StepOf(call) == IF call.op = "build_artifact" THEN 0 ELSE RegistryPosition(call.who)

\* the registry position of the check a result names, 0 for the results
\* the orchestrator writes itself
RegistryPositionOfResult(r) ==
    IF \E n \in DOMAIN _CHECKS : name(_CHECKS[n]) = r.check_name
    THEN CHOOSE n \in DOMAIN _CHECKS : name(_CHECKS[n]) = r.check_name
    ELSE 0

\* C27: files are handled one at a time in discovery order: of two plugin
\* calls the later one is for a later file or, for the same file, a later
\* step (build_artifact, then the checks in registry order); every check
\* run follows a build_artifact call of its file that returned; the flat
\* result list is ordered by (discovery position, registry position).
C27_SequentialProcessingOrder ==
    /\ \A m, n \in PluginCalls :
           m < n =>
               \/ DiscoveryPosition(calls[m].file) < DiscoveryPosition(calls[n].file)
               \/ /\ calls[m].file = calls[n].file
                  /\ StepOf(calls[m]) < StepOf(calls[n])
    /\ \A n \in PluginCalls :
           calls[n].op = "run" =>
               \E m \in PluginCalls :
                   /\ m < n
                   /\ calls[m].op = "build_artifact"
                   /\ calls[m].file = calls[n].file
                   /\ ~calls[m].raised
    /\ \A m, n \in DOMAIN results :
           m < n =>
               \/ DiscoveryPosition(results[m].file) < DiscoveryPosition(results[n].file)
               \/ /\ results[m].file = results[n].file
                  /\ RegistryPositionOfResult(results[m])
                         < RegistryPositionOfResult(results[n])

\* a scan has finished in which two files were each run through two checks
C27_Witness ==
    /\ pc = "done"
    /\ \E f, g \in DiskNames :
           /\ f # g
           /\ Cardinality(CallsFor("run", f)) = 2
           /\ Cardinality(CallsFor("run", g)) = 2

\* the orders in which the files of file_list can be discovered
DiscoveryOrders ==
    {p \in [DOMAIN file_list -> DOMAIN file_list] :
        \A x, y \in DOMAIN file_list : x # y => p[x] # p[y]}

\* report.results of the run that discovers the same files in the order p
\* and gets the same results for each of them
RECURSIVE ResultsInOrder(_, _)
ResultsInOrder(p, n) ==
    IF n > Len(file_list) THEN <<>>
    ELSE ResultsFor(file_list[p[n]]) \o ResultsInOrder(p, n + 1)

\* C28: for a fixed set of discovered files and fixed plugin behaviour the
\* sequence of FileReports of the ScanReport is the same for every order in
\* which the files are discovered, also when two paths differ only in
\* letter case.
C28_DeterministicOutputOrder ==
    pc = "done" =>
        \A p \in DiscoveryOrders :
            ScanReport(ResultsInOrder(p, 1)).files = scan.files

====
